---------------------------- MODULE Spec2Model ----------------------------
(***************************************************************************)
(* State-machine model of main() in multi-mcp-client.py: bridge startup,   *)
(* session creation, the interactive prompt, the agentic dispatch loop     *)
(* (model call / tool calls, capped at 10 iterations per user turn) and     *)
(* the finally block that closes the session.                               *)
(*                                                                         *)
(* Text is modelled as a sequence of chunks (strings); the empty text is   *)
(* <<>>.  A dict is modelled as a set of <<key, value>> pairs.             *)
(***************************************************************************)
EXTENDS Integers, Sequences, FiniteSets, TLC

(***************************************************************************)
(* Bounds of the model                                                     *)
(***************************************************************************)
MaxTurns == 2          \* user messages entered per run
MaxToolRounds == 11    \* model calls per run after which the model stops requesting tools
MaxDeviations == 1     \* anomalies per run: unusual replies, raised exceptions, interrupts
MaxItems == 3          \* content items in a tools/call reply (function-level specification)
MaxTools == 2          \* descriptors in a tools/list reply (function-level specification)
MaxOrchTurns == 2      \* prompts answered per run of orchestrator.py

(***************************************************************************)
(* Program constants                                                       *)
(***************************************************************************)
IterationCap == 10     \* for iteration in range(10)

NoSession == "<unbound>"
SessionId == "sess-1"
NoExc == "none"

(***************************************************************************)
(* input(): the lines the operator can type, str.strip and str.lower       *)
(***************************************************************************)
RawInputs == {"exit", "QUIT", " q ", "Tools", "  ",
              " scan 10.0.0.1 "}

Strip(s) ==
    CASE s = " q " -> "q"
      [] s = "  " -> ""
      [] s = " scan 10.0.0.1 " -> "scan 10.0.0.1"
      [] OTHER -> s

LowerIdentity(s) == s

Lower(s) ==
    CASE s = "QUIT" -> "quit"
      [] s = "Tools" -> "tools"
      [] OTHER -> s

ExitCommands == {"exit", "quit", "q"}

(***************************************************************************)
(* Conversation messages.  keys is the set of keys present in the dict.    *)
(***************************************************************************)
Message(keys, role, content, calls) ==
    [keys |-> keys, role |-> role, content |-> content, tool_calls |-> calls]

UserMessage(text) == Message({"role", "content"}, "user", <<text>>, <<>>)

ToolMessage(text) == Message({"role", "content"}, "tool", text, <<>>)

\* response.get('message', {}) when the response has no 'message' key
EmptyMessage == Message({}, "", <<>>, <<>>)

(***************************************************************************)
(* Tool-call requests: arguments are a dict or a string to be parsed.      *)
(***************************************************************************)
\* A JSON text is modelled as its sequence of tokens.
DictArgs(d) == [kind |-> "dict", dict |-> d, str |-> <<>>]
StrArgs(s) == [kind |-> "str", dict |-> {}, str |-> s]

ToolCall(name, args) == [name |-> name, arguments |-> args]

TargetDict == {<<"target", "10.0.0.1">>}
GoodArgString == <<"{", "target", ":", "10.0.0.1", "}">>
BadArgString == <<"{", "target", ":", "10.0.0.1">>

Punctuation == {"{", "}", ":", ","}

\* json.loads accepts the text: an object of key : value members
JsonParses(s) ==
    /\ Len(s) >= 2
    /\ s[1] = "{"
    /\ s[Len(s)] = "}"
    /\ LET n == Len(s) - 2
       IN \/ n = 0
          \/ /\ n % 4 = 3
             /\ \A i \in 1..n :
                  CASE i % 4 = 1 -> s[i + 1] \notin Punctuation
                    [] i % 4 = 2 -> s[i + 1] = ":"
                    [] i % 4 = 3 -> s[i + 1] \notin Punctuation
                    [] OTHER -> s[i + 1] = ","

\* json.loads: the dict of the members, the last member of a key winning
json_loads(s) ==
    LET m == (Len(s) - 1) \div 4
    IN {<<s[4 * j - 2], s[4 * j]>> : j \in
           {j \in 1..m : \A l \in (j + 1)..m : s[4 * l - 2] # s[4 * j - 2]}}

\* the argument dicts of the function-level specification, and json.dumps of
\* a dict: its members in key order
ArgKeys == <<"target", "ports">>
ArgValues == {"10.0.0.1", "22"}

ArgDicts ==
    UNION {{{<<k, f[k]>> : k \in K} : f \in [K -> ArgValues]} :
              K \in SUBSET {ArgKeys[i] : i \in 1..Len(ArgKeys)}}

RECURSIVE DumpMembers(_, _)
DumpMembers(d, i) ==
    IF i > Len(ArgKeys) THEN <<>>
    ELSE LET P == {p \in d : p[1] = ArgKeys[i]}
             rest == DumpMembers(d, i + 1)
         IN IF P = {} THEN rest
            ELSE LET p == CHOOSE q \in P : TRUE
                 IN IF rest = <<>> THEN <<p[1], ":", p[2]>>
                    ELSE <<p[1], ":", p[2], ",">> \o rest

DumpsArgs(d) == <<"{">> \o DumpMembers(d, 1) \o <<"}">>

ArgInputs ==
    {DictArgs(d) : d \in ArgDicts}
      \cup {StrArgs(DumpsArgs(d)) : d \in ArgDicts}
      \cup {StrArgs(BadArgString), StrArgs(<<>>),
            StrArgs(<<"{", "target", "10.0.0.1", "}">>),
            StrArgs(<<"{", "target", ":", "22", ",", "target", ":", "10.0.0.1", "}">>)}

(***************************************************************************)
(* Replies of the model endpoint (the 'message' of the chat response).     *)
(***************************************************************************)
FinalText == Message({"role", "content"}, "assistant", <<"Port 22 is open.">>, <<>>)
FinalEmpty == Message({"role", "content"}, "assistant", <<>>, <<>>)
OneCall == Message({"role", "content", "tool_calls"}, "assistant", <<>>,
                   <<ToolCall("nmap_scan", DictArgs(TargetDict))>>)
OneCallBad == Message({"role", "content", "tool_calls"}, "assistant", <<>>,
                   <<ToolCall("nmap_scan", StrArgs(BadArgString))>>)
TwoCalls == Message({"role", "content", "tool_calls"}, "assistant", <<>>,
                   <<ToolCall("nmap_scan", DictArgs(TargetDict)),
                     ToolCall("whois", StrArgs(GoodArgString))>>)
TwoCallsBad == Message({"role", "content", "tool_calls"}, "assistant", <<>>,
                   <<ToolCall("whois", StrArgs(BadArgString)),
                     ToolCall("nmap_scan", DictArgs(TargetDict))>>)

ModelReplies == {FinalText, FinalEmpty, EmptyMessage,
                 OneCall, OneCallBad, TwoCalls, TwoCallsBad}

\* the ordinary replies, which do not count against MaxDeviations
PlainReplies == {FinalText, OneCall}

ReplyCost(m) == IF m \in PlainReplies THEN 0 ELSE 1

\* 'tool_calls' in assistant_msg and assistant_msg['tool_calls']
HasToolCalls(m) == "tool_calls" \in m.keys /\ m.tool_calls # <<>>

\* 'content' in assistant_msg and assistant_msg['content']
HasContent(m) == "content" \in m.keys /\ m.content # <<>>

\* messages.append(m)
AppendMessageWindow(msgs, m) ==
    IF Len(msgs) >= 3 THEN Append(Tail(msgs), m) ELSE Append(msgs, m)

AppendMessage(msgs, m) == Append(msgs, m)

\* after the reply is appended: the tool calls are executed, or the loop
\* breaks and the prompt is shown again
PcAfterReplyNoBreak(m) == IF HasToolCalls(m) THEN "tools" ELSE "model"

PcAfterReply(m) == IF HasToolCalls(m) THEN "tools" ELSE "prompt"

\* for iteration in range(10): is there an iteration after iteration i
MoreIterationsOffByOne(i) == i + 1 <= IterationCap

MoreIterations(i) == i + 1 < IterationCap

(***************************************************************************)
(* Replies of the bridge to tools/call, and their normalization            *)
(***************************************************************************)
TextItem(t) == [hasText |-> TRUE, text |-> t, repr |-> "{'text': ...}"]
OtherItem(r) == [hasText |-> FALSE, text |-> "", repr |-> r]

\* {result: {content: items}}, {result: {}} and {error: e}
ContentReply(items) ==
    [hasResult |-> TRUE, hasContent |-> TRUE, content |-> items, error |-> ""]
BareResultReply ==
    [hasResult |-> TRUE, hasContent |-> FALSE, content |-> <<>>, error |-> ""]
ErrorReply(e) ==
    [hasResult |-> FALSE, hasContent |-> FALSE, content |-> <<>>, error |-> e]

\* the reply of a tool that ran: one text item, or two for whois
PlainToolReply(name) ==
    IF name = "whois"
      THEN ContentReply(<<TextItem("Domain: example.org"), TextItem("Registrar: none")>>)
      ELSE ContentReply(<<TextItem("22/tcp open")>>)

ToolReplies(name) == {PlainToolReply(name), ErrorReply("Tool execution failed")}

ToolReplyCost(r) == IF r.hasResult THEN 0 ELSE 1

\* item.get('text', str(item))
ItemText(item) == IF item.hasText THEN item.text ELSE item.repr

\* '\n'.join(texts)
RECURSIVE JoinLines(_)
JoinLines(items) ==
    IF items = <<>> THEN <<>>
    ELSE IF Len(items) = 1 THEN <<ItemText(items[1])>>
    ELSE <<ItemText(items[1]), "\n">> \o JoinLines(Tail(items))

\* json.dumps of one content item and of a list of them
ItemJson(item) ==
    IF item.hasText THEN <<"{\"text\": \"", item.text, "\"}">> ELSE <<item.repr>>

RECURSIVE ItemsJson(_)
ItemsJson(items) ==
    IF items = <<>> THEN <<>>
    ELSE IF Len(items) = 1 THEN ItemJson(items[1])
    ELSE ItemJson(items[1]) \o <<", ">> \o ItemsJson(Tail(items))

\* json.dumps(result): the serialization of the whole reply
json_dumps(reply) ==
    IF ~reply.hasResult THEN <<"{\"error\": \"", reply.error, "\"}">>
    ELSE IF ~reply.hasContent THEN <<"{\"result\": {}}">>
    ELSE <<"{\"result\": {\"content\": [">> \o ItemsJson(reply.content) \o <<"]}}">>

\* result['result'].get('content', [])
ContentOf(reply) == IF reply.hasContent THEN reply.content ELSE <<>>

\* lines 213-220
ResultText(reply) ==
    IF reply.hasResult THEN JoinLines(ContentOf(reply)) ELSE json_dumps(reply)

\* the replies the normalization is applied to in the function-level specification
ContentItems == {TextItem("a"), TextItem("b"), OtherItem("{'type': 'image'}")}

ItemLists == UNION {[1..n -> ContentItems] : n \in 0..MaxItems}

NormInputs ==
    {ContentReply(items) : items \in ItemLists}
      \cup {BareResultReply, ErrorReply("Tool execution failed"), ErrorReply("")}

(***************************************************************************)
(* Tool descriptors returned by tools/list                                 *)
(***************************************************************************)
Descriptor(keys, name, desc, schema) ==
    [keys |-> keys, name |-> name, description |-> desc, inputSchema |-> schema]

ObjectSchema == {<<"type", "object">>}

NmapTool == Descriptor({"name", "description", "inputSchema"}, "nmap_scan", "Scan a host",
                       ObjectSchema)
WhoisTool == Descriptor({"name"}, "whois", "", {})
NamelessTool == Descriptor({"description"}, "", "broken", {})

ToolLists == {<<NmapTool, WhoisTool>>, <<NamelessTool>>}

\* tool['name'] raises KeyError when a descriptor has no 'name'
AllNamed(tools) == \A i \in 1..Len(tools) : "name" \in tools[i].keys

\* one entry of format_tools_for_qwen (lines 80-87)
QwenTool(tool) ==
    [type |-> "function",
     function |->
        [name |-> tool.name,
         description |-> IF "description" \in tool.keys THEN tool.description ELSE "",
         parameters |-> IF "inputSchema" \in tool.keys THEN tool.inputSchema ELSE {}]]

\* format_tools_for_qwen on a list whose descriptors all have a name
format_tools_for_qwen(tools) == [i \in 1..Len(tools) |-> QwenTool(tools[i])]

\* the descriptors of the function-level specification: every set of keys
DescriptorPool ==
    {Descriptor(keys,
                IF "name" \in keys THEN "nmap_scan" ELSE "",
                IF "description" \in keys THEN "Scan a host" ELSE "",
                IF "inputSchema" \in keys THEN ObjectSchema ELSE {}) :
        keys \in SUBSET {"name", "description", "inputSchema"}}

DescriptorLists == UNION {[1..n -> DescriptorPool] : n \in 0..MaxTools}

(***************************************************************************)
(* orchestrator.py: the model's text and the TOOL_CALL found in it         *)
(***************************************************************************)
OrchInputs == {"exit", "QUIT", "q", "scan 10.0.0.1"}

OrchLower(s) == CASE s = "QUIT" -> "quit" [] OTHER -> s

OrchExitCommands == {"exit", "quit"}

\* config["servers"]
ConfigServers == {"pentest"}

\* the text of the model: marker is "none" (no TOOL_CALL in it), "TOOL_CALL"
\* (the word without the colon) or "TOOL_CALL:"; what follows the marker is
\* text that is not JSON ("bad"), a JSON list, or a JSON object with the
\* keys and the server name given
Content(marker, json, keys, server) ==
    [marker |-> marker, json |-> json, keys |-> keys, server |-> server]

NoContent == Content("none", "bad", {}, "")

OrchContents ==
    {NoContent, Content("TOOL_CALL", "bad", {}, ""),
     Content("TOOL_CALL:", "bad", {}, ""), Content("TOOL_CALL:", "list", {}, "")}
      \cup {Content("TOOL_CALL:", "dict", keys, IF "server" \in keys THEN srv ELSE "") :
              keys \in SUBSET {"server", "tool", "args"}, srv \in {"pentest", "other"}}

\* "TOOL_CALL" in content
HasMarker(c) == c.marker # "none"

\* lines 74-79: the exception raised before call_mcp_tool is reached
PrepareError(c) ==
    CASE c.marker = "TOOL_CALL" -> "IndexError"
      [] c.json = "bad" -> "JSONDecodeError"
      [] c.json = "list" -> "TypeError"
      [] "server" \notin c.keys -> "KeyError"
      [] "tool" \notin c.keys -> "KeyError"
      [] c.server \notin ConfigServers -> "KeyError"
      [] OTHER -> NoExc

\* log_data: input, llm and, after a tool call that returned, tool_result
LogData(input, content, hasResult) ==
    [input |-> input, llm |-> content, hasToolResult |-> hasResult]

VARIABLES
    pc,              \* position of main()
    session_id,      \* the local session_id, NoSession while unbound
    mcp_tools,       \* result of bridge.list_tools
    messages,        \* the conversation
    assistant_msg,   \* the local assistant_msg of the agentic loop
    iteration,       \* the for-loop variable of the agentic loop
    tc,              \* index of the tool call being executed (0 outside)
    exc,             \* the exception propagating out of main, NoExc if none
    lastPrint,       \* the last line main() printed
    prompted,        \* input() has been called
    turns,           \* user messages appended so far
    modelCalls,      \* chat_with_qwen calls since the last user message
    totalModelCalls, \* chat_with_qwen calls in the run
    toolCalls,       \* bridge.call_tool calls in the run
    createCalls,     \* successful bridge.create_session calls
    closeCalls,      \* bridge.close_session calls
    startup,         \* how startup went
    turnEnd,         \* how the current turn stands
    lastTool,        \* outcome of the last tool-call request handled
    origExc,         \* the exception pending when the finally block was entered
    deviations,      \* non-default replies used so far
    user_input,      \* the local user_input: the last line read, stripped
    listedWith,      \* the session id passed to bridge.list_tools
    lastCall,        \* the last bridge.call_tool call: its arguments and when it was issued
    sent             \* the messages passed to the last chat_with_qwen call

VARIABLES
    fn_op,           \* the function applied last (function-level specification)
    fn_in,           \* its argument
    fn_out           \* its result: [raised, value]

\* orchestrator.py: the state of its main()
VARIABLES
    o_pc,            \* position of orchestrator.main()
    o_input,         \* the local user_input
    o_content,       \* the content of the model's message
    o_turns,         \* prompts answered by the model so far
    o_attempts,      \* call_mcp_tool calls since the last prompt
    o_log,           \* the log_data passed to log_event, one entry per call
    o_last,          \* how the tool-call detection of the last turn went
    o_exc            \* the exception that left main, NoExc if none

mainVars == <<pc, session_id, mcp_tools, messages, assistant_msg, iteration, tc, exc,
              lastPrint, prompted, turns, modelCalls, totalModelCalls, toolCalls,
              createCalls, closeCalls, startup, turnEnd, lastTool, origExc, deviations,
              user_input, listedWith, lastCall, sent>>

fnVars == <<fn_op, fn_in, fn_out>>

orchVars == <<o_pc, o_input, o_content, o_turns, o_attempts, o_log, o_last, o_exc>>

vars == <<mainVars, fnVars, orchVars>>

NoCall == [session |-> NoSession, name |-> "", arguments |-> {}, at |-> 0, index |-> 0]

Init ==
    /\ pc = "health"
    /\ session_id = NoSession
    /\ mcp_tools = <<>>
    /\ messages = <<>>
    /\ assistant_msg = EmptyMessage
    /\ iteration = 0
    /\ tc = 0
    /\ exc = NoExc
    /\ lastPrint = "banner"
    /\ prompted = FALSE
    /\ turns = 0
    /\ modelCalls = 0
    /\ totalModelCalls = 0
    /\ toolCalls = 0
    /\ createCalls = 0
    /\ closeCalls = 0
    /\ startup = "starting"
    /\ turnEnd = "none"
    /\ lastTool = "none"
    /\ origExc = NoExc
    /\ deviations = 0
    /\ user_input = ""
    /\ listedWith = NoSession
    /\ lastCall = NoCall
    /\ sent = <<>>
    /\ fn_op = "none"
    /\ fn_in = <<>>
    /\ fn_out = <<>>
    /\ o_pc = "config"
    /\ o_input = ""
    /\ o_content = NoContent
    /\ o_turns = 0
    /\ o_attempts = 0
    /\ o_log = <<>>
    /\ o_last = "none"
    /\ o_exc = NoExc

(***************************************************************************)
(* Control transfer out of the try block (lines 144-239): a return, a      *)
(* break out of the main loop or an exception e all run the finally block. *)
(***************************************************************************)
LeaveTryNoFinallyOnInterrupt(e) ==
    /\ pc' = IF e = "KeyboardInterrupt" THEN "exited" ELSE "finally"
    /\ exc' = e
    /\ origExc' = e

LeaveTry(e) ==
    /\ pc' = "finally"
    /\ exc' = e
    /\ origExc' = e

(***************************************************************************)
(* Startup: health check, server list, session creation (lines 116-142)    *)
(***************************************************************************)
HealthOk ==
    /\ pc = "health"
    /\ pc' = "list_servers"
    /\ lastPrint' = "connected"
    /\ UNCHANGED <<user_input, listedWith, lastCall, sent, fnVars, orchVars>>
    /\ UNCHANGED <<session_id, mcp_tools, messages, assistant_msg, iteration, tc, exc,
                   prompted, turns, modelCalls, totalModelCalls, toolCalls,
                   createCalls, closeCalls, startup, turnEnd, lastTool, origExc,
                   deviations>>

\* bridge.health() raises, or the reply has no 'activeSessions': bare except, return
HealthFail ==
    /\ pc = "health"
    /\ pc' = "exited"
    /\ lastPrint' = "no_bridge"
    /\ startup' = "health_failed"
    /\ UNCHANGED <<user_input, listedWith, lastCall, sent, fnVars, orchVars>>
    /\ UNCHANGED <<session_id, mcp_tools, messages, assistant_msg, iteration, tc, exc,
                   prompted, turns, modelCalls, totalModelCalls, toolCalls,
                   createCalls, closeCalls, turnEnd, lastTool, origExc, deviations>>

ListServersOk ==
    /\ pc = "list_servers"
    /\ pc' = "create_session"
    /\ lastPrint' = "using_server"
    /\ UNCHANGED <<user_input, listedWith, lastCall, sent, fnVars, orchVars>>
    /\ UNCHANGED <<session_id, mcp_tools, messages, assistant_msg, iteration, tc, exc,
                   prompted, turns, modelCalls, totalModelCalls, toolCalls,
                   createCalls, closeCalls, startup, turnEnd, lastTool, origExc,
                   deviations>>

\* bridge.list_servers() raises outside any try: the exception leaves main
ListServersRaise ==
    /\ pc = "list_servers"
    /\ pc' = "exited"
    /\ exc' = "ListServersError"
    /\ startup' = "servers_failed"
    /\ UNCHANGED <<user_input, listedWith, lastCall, sent, fnVars, orchVars>>
    /\ UNCHANGED <<session_id, mcp_tools, messages, assistant_msg, iteration, tc,
                   lastPrint, prompted, turns, modelCalls, totalModelCalls, toolCalls,
                   createCalls, closeCalls, turnEnd, lastTool, origExc, deviations>>

CreateSessionOk ==
    /\ pc = "create_session"
    /\ session_id' = SessionId
    /\ createCalls' = createCalls + 1
    /\ pc' = "list_tools"
    /\ lastPrint' = "session_created"
    /\ startup' = "created"
    /\ UNCHANGED <<user_input, listedWith, lastCall, sent, fnVars, orchVars>>
    /\ UNCHANGED <<mcp_tools, messages, assistant_msg, iteration, tc, exc, prompted,
                   turns, modelCalls, totalModelCalls, toolCalls, closeCalls, turnEnd,
                   lastTool, origExc, deviations>>

\* the variant in which the try block already covers create_session
CreateSessionFailInTry ==
    /\ pc = "create_session"
    /\ pc' = "finally"
    /\ lastPrint' = "create_failed"
    /\ startup' = "create_failed"
    /\ UNCHANGED <<user_input, listedWith, lastCall, sent, fnVars, orchVars>>
    /\ UNCHANGED <<session_id, mcp_tools, messages, assistant_msg, iteration, tc, exc,
                   prompted, turns, modelCalls, totalModelCalls, toolCalls,
                   createCalls, closeCalls, turnEnd, lastTool, origExc, deviations>>

\* bridge.create_session raises (no bridge, no 'sessionId'): except Exception, return
CreateSessionFail ==
    /\ pc = "create_session"
    /\ pc' = "exited"
    /\ lastPrint' = "create_failed"
    /\ startup' = "create_failed"
    /\ UNCHANGED <<user_input, listedWith, lastCall, sent, fnVars, orchVars>>
    /\ UNCHANGED <<session_id, mcp_tools, messages, assistant_msg, iteration, tc, exc,
                   prompted, turns, modelCalls, totalModelCalls, toolCalls,
                   createCalls, closeCalls, turnEnd, lastTool, origExc, deviations>>

(***************************************************************************)
(* Inside the try: tool listing and the Ollama check (lines 145-167)       *)
(***************************************************************************)
ListToolsOk ==
    /\ pc = "list_tools"
    /\ listedWith' = session_id
    /\ \E tools \in ToolLists :
         /\ AllNamed(tools)
         /\ mcp_tools' = tools
    /\ pc' = "check_ollama"
    /\ lastPrint' = "tools_listed"
    /\ UNCHANGED <<user_input, lastCall, sent, fnVars, orchVars>>
    /\ UNCHANGED <<session_id, messages, assistant_msg, iteration, tc, exc, prompted,
                   turns, modelCalls, totalModelCalls, toolCalls, createCalls,
                   closeCalls, startup, turnEnd, lastTool, origExc, deviations>>

\* bridge.list_tools raises
ListToolsRaise ==
    /\ pc = "list_tools"
    /\ listedWith' = session_id
    /\ LeaveTry("ListToolsError")
    /\ UNCHANGED <<user_input, lastCall, sent, fnVars, orchVars>>
    /\ UNCHANGED <<session_id, mcp_tools, messages, assistant_msg, iteration, tc,
                   lastPrint, prompted, turns, modelCalls, totalModelCalls, toolCalls,
                   createCalls, closeCalls, startup, turnEnd, lastTool, deviations>>

\* a descriptor without 'name': tool['name'] raises KeyError while printing
ListToolsKeyError ==
    /\ pc = "list_tools"
    /\ listedWith' = session_id
    /\ \E tools \in ToolLists :
         /\ ~AllNamed(tools)
         /\ mcp_tools' = tools
    /\ lastPrint' = "tools_listed"
    /\ LeaveTry("KeyError")
    /\ UNCHANGED <<user_input, lastCall, sent, fnVars, orchVars>>
    /\ UNCHANGED <<session_id, messages, assistant_msg, iteration, tc, prompted,
                   turns, modelCalls, totalModelCalls, toolCalls, createCalls,
                   closeCalls, startup, turnEnd, lastTool, deviations>>

CheckOllamaOk ==
    /\ pc = "check_ollama"
    /\ messages' = <<>>
    /\ pc' = "prompt"
    /\ lastPrint' = "ready"
    /\ UNCHANGED <<user_input, listedWith, lastCall, sent, fnVars, orchVars>>
    /\ UNCHANGED <<session_id, mcp_tools, assistant_msg, iteration, tc, exc, prompted,
                   turns, modelCalls, totalModelCalls, toolCalls, createCalls,
                   closeCalls, startup, turnEnd, lastTool, origExc, deviations>>

\* requests.get raises (a KeyboardInterrupt included): bare except, return
CheckOllamaFail ==
    /\ pc = "check_ollama"
    /\ lastPrint' = "no_ollama"
    /\ LeaveTry(NoExc)
    /\ UNCHANGED <<user_input, listedWith, lastCall, sent, fnVars, orchVars>>
    /\ UNCHANGED <<session_id, mcp_tools, messages, assistant_msg, iteration, tc,
                   prompted, turns, modelCalls, totalModelCalls, toolCalls,
                   createCalls, closeCalls, startup, turnEnd, lastTool, deviations>>

(***************************************************************************)
(* The prompt (lines 170-184)                                              *)
(***************************************************************************)
ReadExit ==
    /\ pc = "prompt"
    /\ \E raw \in RawInputs :
         /\ Lower(Strip(raw)) \in ExitCommands
         /\ user_input' = Strip(raw)
    /\ prompted' = TRUE
    /\ LeaveTry(NoExc)
    /\ UNCHANGED <<listedWith, lastCall, sent, fnVars, orchVars>>
    /\ UNCHANGED <<session_id, mcp_tools, messages, assistant_msg, iteration, tc,
                   lastPrint, turns, modelCalls, totalModelCalls, toolCalls,
                   createCalls, closeCalls, startup, turnEnd, lastTool, deviations>>

ReadTools ==
    /\ pc = "prompt"
    /\ \E raw \in RawInputs :
         /\ Lower(Strip(raw)) = "tools"
         /\ user_input' = Strip(raw)
    /\ prompted' = TRUE
    /\ lastPrint' = IF mcp_tools = <<>> THEN lastPrint ELSE "tool_names"
    /\ UNCHANGED <<listedWith, lastCall, sent, fnVars, orchVars>>
    /\ UNCHANGED <<pc, session_id, mcp_tools, messages, assistant_msg, iteration, tc,
                   exc, turns, modelCalls, totalModelCalls, toolCalls, createCalls,
                   closeCalls, startup, turnEnd, lastTool, origExc, deviations>>

ReadEmpty ==
    /\ pc = "prompt"
    /\ \E raw \in RawInputs :
         /\ Lower(Strip(raw)) \notin ExitCommands \cup {"tools"}
         /\ Strip(raw) = ""
         /\ user_input' = Strip(raw)
    /\ prompted' = TRUE
    /\ UNCHANGED <<listedWith, lastCall, sent, fnVars, orchVars>>
    /\ UNCHANGED <<pc, session_id, mcp_tools, messages, assistant_msg, iteration, tc,
                   exc, lastPrint, turns, modelCalls, totalModelCalls, toolCalls,
                   createCalls, closeCalls, startup, turnEnd, lastTool, origExc,
                   deviations>>

\* any other line starts a turn: the stripped line is appended and the
\* agentic loop starts at iteration 0
ReadUserMessage ==
    /\ pc = "prompt"
    /\ turns < MaxTurns
    /\ \E raw \in RawInputs :
         /\ Lower(Strip(raw)) \notin ExitCommands \cup {"tools"}
         /\ Strip(raw) # ""
         /\ user_input' = Strip(raw)
         /\ messages' = AppendMessage(messages, UserMessage(Strip(raw)))
    /\ prompted' = TRUE
    /\ iteration' = 0
    /\ pc' = "model"
    /\ turns' = turns + 1
    /\ modelCalls' = 0
    /\ turnEnd' = "running"
    /\ lastTool' = "none"
    /\ UNCHANGED <<listedWith, lastCall, sent, fnVars, orchVars>>
    /\ UNCHANGED <<session_id, mcp_tools, assistant_msg, tc, exc, lastPrint,
                   totalModelCalls, toolCalls, createCalls, closeCalls, startup,
                   origExc, deviations>>

\* Ctrl-C (or end of input) while input() waits
ReadInterrupt ==
    /\ pc = "prompt"
    /\ deviations < MaxDeviations
    /\ deviations' = deviations + 1
    /\ prompted' = TRUE
    /\ LeaveTry("KeyboardInterrupt")
    /\ UNCHANGED <<user_input, listedWith, lastCall, sent, fnVars, orchVars>>
    /\ UNCHANGED <<session_id, mcp_tools, messages, assistant_msg, iteration, tc,
                   lastPrint, turns, modelCalls, totalModelCalls, toolCalls,
                   createCalls, closeCalls, startup, turnEnd, lastTool>>

(***************************************************************************)
(* The agentic loop: the model call (lines 187-193, 231-234)               *)
(***************************************************************************)
ModelReply ==
    /\ pc = "model"
    /\ \E m \in ModelReplies :
         /\ deviations + ReplyCost(m) <= MaxDeviations
         /\ HasToolCalls(m) => totalModelCalls < MaxToolRounds
         /\ deviations' = deviations + ReplyCost(m)
         /\ assistant_msg' = m
         /\ messages' = AppendMessage(messages, m)
         /\ pc' = PcAfterReply(m)
         /\ IF HasToolCalls(m)
              THEN /\ tc' = 1
                   /\ lastPrint' = "executing"
                   /\ turnEnd' = turnEnd
              ELSE /\ tc' = tc
                   /\ lastPrint' = IF HasContent(m) THEN "final" ELSE lastPrint
                   /\ turnEnd' = "done"
    /\ sent' = messages
    /\ modelCalls' = modelCalls + 1
    /\ totalModelCalls' = totalModelCalls + 1
    /\ lastTool' = "none"
    /\ UNCHANGED <<user_input, listedWith, lastCall, fnVars, orchVars>>
    /\ UNCHANGED <<session_id, mcp_tools, iteration, exc, prompted, turns, toolCalls,
                   createCalls, closeCalls, startup, origExc>>

\* chat_with_qwen raises: endpoint unreachable, timeout, reply that is not JSON
ModelRaise ==
    /\ pc = "model"
    /\ deviations < MaxDeviations
    /\ deviations' = deviations + 1
    /\ sent' = messages
    /\ modelCalls' = modelCalls + 1
    /\ totalModelCalls' = totalModelCalls + 1
    /\ turnEnd' = "failed"
    /\ LeaveTry("ModelError")
    /\ UNCHANGED <<user_input, listedWith, lastCall, fnVars, orchVars>>
    /\ UNCHANGED <<session_id, mcp_tools, messages, assistant_msg, iteration, tc,
                   lastPrint, prompted, turns, toolCalls, createCalls, closeCalls,
                   startup, lastTool>>

\* Ctrl-C while the model call is in flight
ModelInterrupt ==
    /\ pc = "model"
    /\ deviations < MaxDeviations
    /\ deviations' = deviations + 1
    /\ sent' = messages
    /\ modelCalls' = modelCalls + 1
    /\ totalModelCalls' = totalModelCalls + 1
    /\ turnEnd' = "interrupted"
    /\ LeaveTry("KeyboardInterrupt")
    /\ UNCHANGED <<user_input, listedWith, lastCall, fnVars, orchVars>>
    /\ UNCHANGED <<session_id, mcp_tools, messages, assistant_msg, iteration, tc,
                   lastPrint, prompted, turns, toolCalls, createCalls, closeCalls,
                   startup, lastTool>>

(***************************************************************************)
(* The agentic loop: one tool-call request (lines 196-229)                 *)
(***************************************************************************)
CurrentCall == assistant_msg.tool_calls[tc]

\* lines 200-204
ParsedArgsNoParse(args) == args.dict

ParsedArgs(args) == IF args.kind = "str" THEN json_loads(args.str) ELSE args.dict

ArgsParse(args) == args.kind = "str" => JsonParses(args.str)

\* bridge.call_tool(session_id, tool_name, tool_args), issued when the
\* conversation has Len(messages) messages, for request number tc
CallNow ==
    [session |-> session_id, name |-> CurrentCall.name,
     arguments |-> ParsedArgs(CurrentCall.arguments),
     at |-> Len(messages), index |-> tc]

\* for tool_call in assistant_msg['tool_calls']: is there a request after i
MoreCallsNone(i, calls) == FALSE

MoreCalls(i, calls) == i < Len(calls)

\* json.loads raises on the argument string
ToolParseFail ==
    /\ pc = "tools"
    /\ ~ArgsParse(CurrentCall.arguments)
    /\ lastTool' = "parse_error"
    /\ turnEnd' = "failed"
    /\ LeaveTry("JSONDecodeError")
    /\ UNCHANGED <<user_input, listedWith, lastCall, sent, fnVars, orchVars>>
    /\ UNCHANGED <<session_id, mcp_tools, messages, assistant_msg, iteration, tc,
                   lastPrint, prompted, turns, modelCalls, totalModelCalls, toolCalls,
                   createCalls, closeCalls, startup, deviations>>

\* bridge.call_tool raises: timeout, connection error, reply that is not JSON
ToolRaise ==
    /\ pc = "tools"
    /\ deviations < MaxDeviations
    /\ deviations' = deviations + 1
    /\ ArgsParse(CurrentCall.arguments)
    /\ lastCall' = CallNow
    /\ toolCalls' = toolCalls + 1
    /\ lastPrint' = "tool_args"
    /\ lastTool' = "raised"
    /\ turnEnd' = "failed"
    /\ LeaveTry("ToolError")
    /\ UNCHANGED <<user_input, listedWith, sent, fnVars, orchVars>>
    /\ UNCHANGED <<session_id, mcp_tools, messages, assistant_msg, iteration, tc,
                   prompted, turns, modelCalls, totalModelCalls, createCalls,
                   closeCalls, startup>>

\* Ctrl-C while the tool call is in flight
ToolInterrupt ==
    /\ pc = "tools"
    /\ deviations < MaxDeviations
    /\ deviations' = deviations + 1
    /\ ArgsParse(CurrentCall.arguments)
    /\ lastCall' = CallNow
    /\ toolCalls' = toolCalls + 1
    /\ lastPrint' = "tool_args"
    /\ lastTool' = "interrupted"
    /\ turnEnd' = "interrupted"
    /\ LeaveTry("KeyboardInterrupt")
    /\ UNCHANGED <<user_input, listedWith, sent, fnVars, orchVars>>
    /\ UNCHANGED <<session_id, mcp_tools, messages, assistant_msg, iteration, tc,
                   prompted, turns, modelCalls, totalModelCalls, createCalls,
                   closeCalls, startup>>

\* bridge.call_tool returns a reply: it is normalized and appended; after the
\* last request the for loop continues, or is exhausted at the cap
ToolReply ==
    /\ pc = "tools"
    /\ ArgsParse(CurrentCall.arguments)
    /\ lastCall' = CallNow
    /\ \E r \in ToolReplies(CurrentCall.name) :
         /\ deviations + ToolReplyCost(r) <= MaxDeviations
         /\ deviations' = deviations + ToolReplyCost(r)
         /\ messages' = AppendMessage(messages, ToolMessage(ResultText(r)))
         /\ lastTool' = IF r.hasResult THEN "ok" ELSE "error_payload"
    /\ toolCalls' = toolCalls + 1
    /\ lastPrint' = "tool_done"
    /\ IF MoreCalls(tc, assistant_msg.tool_calls)
         THEN /\ tc' = tc + 1
              /\ UNCHANGED <<pc, iteration, turnEnd>>
         ELSE /\ tc' = 0
              /\ IF MoreIterations(iteration)
                   THEN /\ iteration' = iteration + 1
                        /\ pc' = "model"
                        /\ turnEnd' = turnEnd
                   ELSE /\ iteration' = iteration
                        /\ pc' = "prompt"
                        /\ turnEnd' = "cap"
    /\ UNCHANGED <<user_input, listedWith, sent, fnVars, orchVars>>
    /\ UNCHANGED <<session_id, mcp_tools, assistant_msg, exc, prompted, turns,
                   modelCalls, totalModelCalls, createCalls, closeCalls, startup,
                   origExc>>

(***************************************************************************)
(* The finally block (lines 236-239)                                       *)
(***************************************************************************)
\* the variant in which the session is closed at the end of each turn and
\* the loop goes on
CloseOkAndContinue ==
    /\ pc = "finally"
    /\ closeCalls < 2
    /\ closeCalls' = closeCalls + 1
    /\ lastPrint' = "session_closed"
    /\ pc' = "prompt"
    /\ UNCHANGED <<user_input, listedWith, lastCall, sent, fnVars, orchVars>>
    /\ UNCHANGED <<session_id, mcp_tools, messages, assistant_msg, iteration, tc, exc,
                   prompted, turns, modelCalls, totalModelCalls, toolCalls,
                   createCalls, startup, turnEnd, lastTool, origExc, deviations>>

CloseOk ==
    /\ pc = "finally"
    /\ closeCalls' = closeCalls + 1
    /\ lastPrint' = "session_closed"
    /\ pc' = "exited"
    /\ UNCHANGED <<user_input, listedWith, lastCall, sent, fnVars, orchVars>>
    /\ UNCHANGED <<session_id, mcp_tools, messages, assistant_msg, iteration, tc, exc,
                   prompted, turns, modelCalls, totalModelCalls, toolCalls,
                   createCalls, startup, turnEnd, lastTool, origExc, deviations>>

\* bridge.close_session raises (no bridge, reply that is not JSON): the new
\* exception replaces the pending one and leaves main
CloseRaise ==
    /\ pc = "finally"
    /\ deviations < MaxDeviations
    /\ deviations' = deviations + 1
    /\ closeCalls' = closeCalls + 1
    /\ exc' = "CloseError"
    /\ pc' = "exited"
    /\ UNCHANGED <<user_input, listedWith, lastCall, sent, fnVars, orchVars>>
    /\ UNCHANGED <<session_id, mcp_tools, messages, assistant_msg, iteration, tc,
                   lastPrint, prompted, turns, modelCalls, totalModelCalls, toolCalls,
                   createCalls, startup, turnEnd, lastTool, origExc>>

Next ==
    \/ HealthOk \/ HealthFail
    \/ ListServersOk \/ ListServersRaise
    \/ CreateSessionOk \/ CreateSessionFail
    \/ ListToolsOk \/ ListToolsRaise \/ ListToolsKeyError
    \/ CheckOllamaOk \/ CheckOllamaFail
    \/ ReadExit \/ ReadTools \/ ReadEmpty \/ ReadUserMessage \/ ReadInterrupt
    \/ ModelReply \/ ModelRaise \/ ModelInterrupt
    \/ ToolParseFail \/ ToolRaise \/ ToolInterrupt \/ ToolReply
    \/ CloseOk \/ CloseRaise

Spec == Init /\ [][Next]_vars

(***************************************************************************)
(* Function-level specification: the pure steps of main() applied to       *)
(* inputs drawn from bounded sets.                                         *)
(***************************************************************************)
Returned(v) == [raised |-> FALSE, value |-> v]
Raised(e) == [raised |-> TRUE, value |-> <<e>>]

\* lines 212-220 applied to a reply of tools/call
NormalizeResult ==
    /\ \E r \in NormInputs :
         /\ fn_in' = r
         /\ fn_out' = Returned(ResultText(r))
    /\ fn_op' = "normalize"
    /\ UNCHANGED <<mainVars, orchVars>>

\* lines 200-204 applied to the arguments of a tool-call request
ParseArguments ==
    /\ \E args \in ArgInputs :
         /\ fn_in' = args
         /\ fn_out' = IF ArgsParse(args) THEN Returned(ParsedArgs(args))
                                         ELSE Raised("JSONDecodeError")
    /\ fn_op' = "parse"
    /\ UNCHANGED <<mainVars, orchVars>>

\* format_tools_for_qwen applied to a list of descriptors
FormatTools ==
    /\ \E tools \in DescriptorLists :
         /\ fn_in' = tools
         /\ fn_out' = IF AllNamed(tools) THEN Returned(format_tools_for_qwen(tools))
                                         ELSE Raised("KeyError")
    /\ fn_op' = "format"
    /\ UNCHANGED <<mainVars, orchVars>>

NextFn ==
    \/ NormalizeResult
    \/ ParseArguments
    \/ FormatTools

SpecFn == Init /\ [][NextFn]_vars

(***************************************************************************)
(* orchestrator.py: main() (lines 48-92)                                   *)
(***************************************************************************)
OrchLoadConfig ==
    /\ o_pc = "config"
    /\ o_pc' = "prompt"
    /\ UNCHANGED <<o_input, o_content, o_turns, o_attempts, o_log, o_last, o_exc>>
    /\ UNCHANGED <<mainVars, fnVars>>

\* config.json is missing or is not JSON
OrchLoadConfigRaise ==
    /\ o_pc = "config"
    /\ o_pc' = "exited"
    /\ o_exc' = "ConfigError"
    /\ UNCHANGED <<o_input, o_content, o_turns, o_attempts, o_log, o_last>>
    /\ UNCHANGED <<mainVars, fnVars>>

OrchReadExit ==
    /\ o_pc = "prompt"
    /\ \E line \in OrchInputs :
         /\ OrchLower(line) \in OrchExitCommands
         /\ o_input' = line
    /\ o_pc' = "exited"
    /\ UNCHANGED <<o_content, o_turns, o_attempts, o_log, o_last, o_exc>>
    /\ UNCHANGED <<mainVars, fnVars>>

OrchReadInput ==
    /\ o_pc = "prompt"
    /\ o_turns < MaxOrchTurns
    /\ \E line \in OrchInputs :
         /\ OrchLower(line) \notin OrchExitCommands
         /\ o_input' = line
    /\ o_pc' = "llm"
    /\ o_turns' = o_turns + 1
    /\ o_attempts' = 0
    /\ o_last' = "none"
    /\ UNCHANGED <<o_content, o_log, o_exc>>
    /\ UNCHANGED <<mainVars, fnVars>>

\* call_ollama returns; a reply without message or content gives ""
OrchLlmReply ==
    /\ o_pc = "llm"
    /\ \E c \in OrchContents : o_content' = c
    /\ o_pc' = "detect"
    /\ UNCHANGED <<o_input, o_turns, o_attempts, o_log, o_last, o_exc>>
    /\ UNCHANGED <<mainVars, fnVars>>

\* call_ollama raises: nothing catches it
OrchLlmRaise ==
    /\ o_pc = "llm"
    /\ o_pc' = "exited"
    /\ o_exc' = "LlmError"
    /\ UNCHANGED <<o_input, o_content, o_turns, o_attempts, o_log, o_last>>
    /\ UNCHANGED <<mainVars, fnVars>>

\* no TOOL_CALL in the text: log_event and the next prompt
OrchNoToolCall ==
    /\ o_pc = "detect"
    /\ ~HasMarker(o_content)
    /\ o_last' = "no_tool_call"
    /\ o_log' = Append(o_log, LogData(o_input, o_content, FALSE))
    /\ o_pc' = "prompt"
    /\ UNCHANGED <<o_input, o_content, o_turns, o_attempts, o_exc>>
    /\ UNCHANGED <<mainVars, fnVars>>

\* the variant without the except clause: the exception leaves main
OrchToolFailUncaught ==
    /\ o_pc = "detect"
    /\ HasMarker(o_content)
    /\ PrepareError(o_content) # NoExc
    /\ o_last' = "tool_failed"
    /\ o_exc' = PrepareError(o_content)
    /\ o_pc' = "exited"
    /\ UNCHANGED <<o_input, o_content, o_turns, o_attempts, o_log>>
    /\ UNCHANGED <<mainVars, fnVars>>

\* lines 74-79 raise: except Exception prints, then log_event and the next prompt
OrchToolFail ==
    /\ o_pc = "detect"
    /\ HasMarker(o_content)
    /\ PrepareError(o_content) # NoExc
    /\ o_last' = "tool_failed"
    /\ o_log' = Append(o_log, LogData(o_input, o_content, FALSE))
    /\ o_pc' = "prompt"
    /\ UNCHANGED <<o_input, o_content, o_turns, o_attempts, o_exc>>
    /\ UNCHANGED <<mainVars, fnVars>>

\* call_mcp_tool raises: except Exception prints, then log_event and the next prompt
OrchToolRaise ==
    /\ o_pc = "detect"
    /\ HasMarker(o_content)
    /\ PrepareError(o_content) = NoExc
    /\ o_attempts' = o_attempts + 1
    /\ o_last' = "tool_raised"
    /\ o_log' = Append(o_log, LogData(o_input, o_content, FALSE))
    /\ o_pc' = "prompt"
    /\ UNCHANGED <<o_input, o_content, o_turns, o_exc>>
    /\ UNCHANGED <<mainVars, fnVars>>

\* Ctrl-C while call_mcp_tool waits for the server: KeyboardInterrupt is not
\* an Exception, so the except clause lets it leave main
OrchToolInterrupt ==
    /\ o_pc = "detect"
    /\ HasMarker(o_content)
    /\ PrepareError(o_content) = NoExc
    /\ o_attempts' = o_attempts + 1
    /\ o_last' = "interrupted"
    /\ o_exc' = "KeyboardInterrupt"
    /\ o_pc' = "exited"
    /\ UNCHANGED <<o_input, o_content, o_turns, o_log>>
    /\ UNCHANGED <<mainVars, fnVars>>

\* call_mcp_tool returns: the result is put in log_data, then log_event
OrchToolOk ==
    /\ o_pc = "detect"
    /\ HasMarker(o_content)
    /\ PrepareError(o_content) = NoExc
    /\ o_attempts' = o_attempts + 1
    /\ o_last' = "tool_ok"
    /\ o_log' = Append(o_log, LogData(o_input, o_content, TRUE))
    /\ o_pc' = "prompt"
    /\ UNCHANGED <<o_input, o_content, o_turns, o_exc>>
    /\ UNCHANGED <<mainVars, fnVars>>

NextOrch ==
    \/ OrchLoadConfig \/ OrchLoadConfigRaise
    \/ OrchReadExit \/ OrchReadInput
    \/ OrchLlmReply \/ OrchLlmRaise
    \/ OrchNoToolCall \/ OrchToolFail \/ OrchToolRaise \/ OrchToolInterrupt \/ OrchToolOk

SpecOrch == Init /\ [][NextOrch]_vars

(***************************************************************************)
(* Helpers for the properties                                              *)
(***************************************************************************)
\* index of the last user message, 0 if there is none
LastUserIdx ==
    LET U == {k \in 1..Len(messages) : messages[k].role = "user"}
    IN IF U = {} THEN 0 ELSE CHOOSE k \in U : \A j \in U : j <= k

\* the messages appended by model calls since the last user message
RepliesThisTurn ==
    {k \in (LastUserIdx + 1)..Len(messages) : messages[k].role # "tool"}

\* index of the assistant message whose tool calls are being executed
CurrentIdx == Len(messages) - (tc - 1)

\* the lines main() prints on occasions other than reaching the cap
OrdinaryPrints == {"banner", "connected", "no_bridge", "using_server",
                   "session_created", "create_failed", "tools_listed", "ready",
                   "no_ollama", "tool_names", "executing", "tool_args",
                   "tool_done", "final", "session_closed"}

ErrorDescriptions == {"Tool execution failed"}

IsErrorText(t) == \E i \in 1..Len(t) : t[i] \in ErrorDescriptions

(***************************************************************************)
(* C1: in every run in which create_session succeeded, close_session is    *)
(* invoked exactly once: never twice at any point, and exactly once when   *)
(* main has ended, whichever way the try block was left.                   *)
(***************************************************************************)
CloseExactlyOnce ==
    /\ closeCalls <= 1
    /\ closeCalls <= createCalls
    /\ (pc = "exited" /\ createCalls = 1) => closeCalls = 1

\* a run that was interrupted in the middle of its second turn and has ended
InterruptedRunClosed ==
    /\ pc = "exited"
    /\ turns = 2
    /\ turnEnd = "interrupted"
    /\ origExc = "KeyboardInterrupt"
    /\ closeCalls = 1

(***************************************************************************)
(* C2: once the loop is past an assistant message with N >= 1 tool-call    *)
(* requests (next model call, or end of the turn), the N messages after it *)
(* exist and are tool-role messages, whatever the calls' outcomes.         *)
(***************************************************************************)
EveryRequestAnswered ==
    \A k \in 1..Len(messages) :
        (/\ HasToolCalls(messages[k])
         /\ ~(pc = "tools" /\ k = CurrentIdx))
        => \A i \in 1..Len(messages[k].tool_calls) :
              /\ k + i <= Len(messages)
              /\ messages[k + i].role = "tool"

(***************************************************************************)
(* C3: at most IterationCap model calls are issued per user turn; the      *)
(* count of the turn is the loop variable, which every new user message    *)
(* resets to zero.                                                         *)
(***************************************************************************)
ModelCallsCapped ==
    /\ modelCalls <= IterationCap
    /\ Cardinality(RepliesThisTurn) <= IterationCap
    /\ pc = "model" => (iteration < IterationCap /\ modelCalls = iteration)
    /\ pc = "tools" => (iteration < IterationCap /\ modelCalls = iteration + 1)

\* the second turn reached the cap after the first turn had used a model call
SecondTurnAtCap ==
    /\ turns = 2
    /\ turnEnd = "cap"
    /\ modelCalls = IterationCap
    /\ totalModelCalls > IterationCap

(***************************************************************************)
(* C4: a turn that ended at the iteration cap has reported it: the last    *)
(* line printed is a line of its own, not one printed on other occasions,  *)
(* and no exception is pending.                                            *)
(***************************************************************************)
CapIsReported ==
    turnEnd = "cap" => (lastPrint \notin OrdinaryPrints /\ exc = NoExc)

(***************************************************************************)
(* C5: after a tool call that raised or returned an error payload, no      *)
(* exception is pending, the loop goes on (next request, next model call   *)
(* or the prompt at the cap) and the last message is a tool message with   *)
(* the error description.                                                  *)
(***************************************************************************)
ToolFailureIsScoped ==
    lastTool \in {"raised", "error_payload"} =>
        /\ exc = NoExc
        /\ pc \in {"tools", "model", "prompt"}
        /\ messages # <<>>
        /\ messages[Len(messages)].role = "tool"
        /\ IsErrorText(messages[Len(messages)].content)

(***************************************************************************)
(* C6: after a tool-call request whose argument string did not parse, no   *)
(* exception is pending, the loop goes on and the last message is a        *)
(* tool message standing in for the request.                               *)
(***************************************************************************)
ParseFailureIsScoped ==
    lastTool = "parse_error" =>
        /\ exc = NoExc
        /\ pc \in {"tools", "model", "prompt"}
        /\ messages # <<>>
        /\ messages[Len(messages)].role = "tool"

(***************************************************************************)
(* C7: after a failed model call the turn has failed but the run is back   *)
(* at the prompt with the session not closed.                              *)
(***************************************************************************)
ModelFailureEndsOnlyTheTurn ==
    (turnEnd = "failed" /\ origExc = "ModelError") =>
        /\ pc = "prompt"
        /\ closeCalls = 0

(***************************************************************************)
(* C8: when main has ended after closing the session, what leaves main is  *)
(* what was pending when the finally block was entered (an exception E, or *)
(* nothing), never a failure of close_session.                             *)
(***************************************************************************)
CloseFailureNotRaised ==
    (pc = "exited" /\ closeCalls = 1) => exc = origExc

(***************************************************************************)
(* C9: when the health check or the session creation failed, main has      *)
(* ended without reading a prompt, calling the model or a tool, and        *)
(* without a session or a close_session call.                              *)
(***************************************************************************)
FailedStartupStartsNothing ==
    startup \in {"health_failed", "create_failed"} =>
        /\ pc = "exited"
        /\ ~prompted
        /\ totalModelCalls = 0
        /\ toolCalls = 0
        /\ messages = <<>>
        /\ session_id = NoSession
        /\ createCalls = 0
        /\ closeCalls = 0

\* main has ended after create_session failed
CreateFailedEnded ==
    /\ startup = "create_failed"
    /\ pc = "exited"
    /\ lastPrint = "create_failed"

(***************************************************************************)
(* C10: whenever the loop is not inside a turn (at the prompt, or main is  *)
(* over) the last turn ended Done, or Failed with the exception reported,  *)
(* or at the cap with the cap reported.                                    *)
(***************************************************************************)
EveryTurnEndsReported ==
    (pc \in {"prompt", "exited"} /\ turns > 0) =>
        \/ turnEnd = "done"
        \/ turnEnd \in {"failed", "interrupted"} /\ exc # NoExc
        \/ turnEnd = "cap" /\ lastPrint \notin OrdinaryPrints
(***************************************************************************)
(* C11: the normalized text of every reply equals the reference: the texts *)
(* of result.content joined with "\n" when the reply has a result with a   *)
(* content list of text items, and the serialization of the whole reply    *)
(* when it has no result or no content field.                              *)
(***************************************************************************)
RefJoin(items) ==
    [i \in 1..(IF items = <<>> THEN 0 ELSE 2 * Len(items) - 1) |->
        IF i % 2 = 1 THEN items[(i + 1) \div 2].text ELSE "\n"]

RefNormalize(reply) ==
    IF reply.hasResult /\ reply.hasContent
      THEN RefJoin(reply.content)
      ELSE json_dumps(reply)

AllText(reply) == \A i \in 1..Len(reply.content) : reply.content[i].hasText

NormalizationMatchesReference ==
    (fn_op = "normalize" /\ AllText(fn_in)) =>
        /\ ~fn_out.raised
        /\ fn_out.value = RefNormalize(fn_in)

(***************************************************************************)
(* C12: pre-structured arguments reach call_tool unchanged; for every      *)
(* argument dict S the string json.dumps(S) is normalized to S, as if S    *)
(* had been sent pre-structured; and normalizing a normalized value        *)
(* returns it unchanged.                                                   *)
(***************************************************************************)
ArgumentNormalization ==
    fn_op = "parse" =>
        /\ fn_in.kind = "dict" => (~fn_out.raised /\ fn_out.value = fn_in.dict)
        /\ \A d \in ArgDicts :
              fn_in = StrArgs(DumpsArgs(d)) =>
                  (~fn_out.raised /\ fn_out.value = d)
        /\ ~fn_out.raised =>
              /\ ArgsParse(DictArgs(fn_out.value))
              /\ ParsedArgs(DictArgs(fn_out.value)) = fn_out.value

\* a string payload with two members has been parsed
TwoMembersParsed ==
    /\ fn_op = "parse"
    /\ fn_in.kind = "str"
    /\ ~fn_out.raised
    /\ fn_out.value = {<<"target", "10.0.0.1">>, <<"ports", "22">>}

(***************************************************************************)
(* C13: when input() returns the line tools (in any letter case) or an     *)
(* empty line, the step leaves the conversation, the call counts and the   *)
(* session as they are and the prompt is shown again; when it returns      *)
(* exit, quit or q the loop is left for the finally block without a model  *)
(* call or a tool call.                                                    *)
(***************************************************************************)
ReservedInputsFrame ==
    [][(pc = "prompt" /\ exc' = NoExc) =>
          /\ user_input' \in {"tools", "Tools", ""} =>
                /\ pc' = "prompt"
                /\ messages' = messages
                /\ totalModelCalls' = totalModelCalls
                /\ toolCalls' = toolCalls
                /\ closeCalls' = closeCalls
                /\ session_id' = session_id
                /\ turns' = turns
          /\ user_input' \in {"exit", "QUIT", "q"} =>
                /\ pc' = "finally"
                /\ messages' = messages
                /\ totalModelCalls' = totalModelCalls
                /\ toolCalls' = toolCalls]_vars

\* the line Tools was read at the prompt after a completed turn
ToolsReadAfterTurn ==
    /\ pc = "prompt"
    /\ user_input = "Tools"
    /\ turns = 1
    /\ turnEnd = "done"
    /\ closeCalls = 0

(***************************************************************************)
(* C14: format_tools_for_qwen never raises and maps every list of          *)
(* descriptors to a list of the same length and order whose entries carry  *)
(* the descriptor's name, description and input schema, an absent field    *)
(* being passed through as its empty default.                              *)
(***************************************************************************)
FormatToolsTotal ==
    fn_op = "format" =>
        /\ ~fn_out.raised
        /\ Len(fn_out.value) = Len(fn_in)
        /\ \A i \in 1..Len(fn_in) :
              LET d == fn_in[i]
                  f == fn_out.value[i].function
              IN /\ f.name = (IF "name" \in d.keys THEN d.name ELSE "")
                 /\ f.description =
                       (IF "description" \in d.keys THEN d.description ELSE "")
                 /\ f.parameters =
                       (IF "inputSchema" \in d.keys THEN d.inputSchema ELSE {})

(***************************************************************************)
(* C15: when the last message is a model reply without tool-call requests  *)
(* the turn is Done: the loop is out of the turn, that reply is the only   *)
(* such reply of the turn, no model call and no tool call was issued after *)
(* it, and it is the assistant message whose text is the final answer.     *)
(***************************************************************************)
FinalReplyEndsTurn ==
    LET n == Len(messages)
    IN (/\ n > 0
        /\ messages[n].role \notin {"user", "tool"}
        /\ ~HasToolCalls(messages[n]))
       => /\ turnEnd = "done"
          /\ pc \in {"prompt", "finally", "exited"}
          /\ assistant_msg = messages[n]
          /\ Cardinality({k \in RepliesThisTurn : ~HasToolCalls(messages[k])}) = 1
          /\ modelCalls = Cardinality(RepliesThisTurn)
          /\ Len(sent) = n - 1
          /\ lastCall.at < n

\* the scenario of the spec: one nmap_scan round, then the final text
ScanScenarioDone ==
    /\ pc = "prompt"
    /\ turnEnd = "done"
    /\ lastPrint = "final"
    /\ messages = <<UserMessage("scan 10.0.0.1"), OneCall,
                    ToolMessage(<<"22/tcp open">>), FinalText>>

(***************************************************************************)
(* C16: while tool calls are executed the assistant message that carries   *)
(* them is already in the conversation, followed by the results of the     *)
(* requests before the current one and nothing else; a call that returned  *)
(* was issued for a request of that message and its result is the message  *)
(* right after the ones that were there when it was issued; and the        *)
(* conversation passed to a model call ends with a user message or with an *)
(* assistant message followed by the results of all its requests.          *)
(***************************************************************************)
LastNonTool(seq) ==
    LET S == {k \in 1..Len(seq) : seq[k].role # "tool"}
    IN IF S = {} THEN 0 ELSE CHOOSE k \in S : \A j \in S : j <= k

AllAnswered(seq) ==
    LET t == LastNonTool(seq)
    IN /\ t > 0
       /\ \/ seq[t].role = "user"
          \/ /\ HasToolCalls(seq[t])
             /\ Len(seq) - t = Len(seq[t].tool_calls)

DispatchOrdering ==
    /\ pc = "tools" =>
          /\ CurrentIdx >= 1
          /\ messages[CurrentIdx] = assistant_msg
          /\ HasToolCalls(assistant_msg)
          /\ tc \in 1..Len(assistant_msg.tool_calls)
          /\ \A i \in 1..(tc - 1) : messages[CurrentIdx + i].role = "tool"
    /\ lastTool \in {"ok", "error_payload"} =>
          LET a == lastCall.at - lastCall.index + 1
          IN /\ a >= 1
             /\ HasToolCalls(messages[a])
             /\ lastCall.index <= Len(messages[a].tool_calls)
             /\ messages[a].tool_calls[lastCall.index].name = lastCall.name
             /\ \A i \in 1..(lastCall.index - 1) : messages[a + i].role = "tool"
             /\ Len(messages) = lastCall.at + 1
             /\ messages[lastCall.at + 1].role = "tool"
    /\ totalModelCalls > 0 => AllAnswered(sent)

\* a model call was issued with the results of both requests of one message
TwoResultsSent ==
    /\ Len(sent) = 4
    /\ sent[2] = TwoCalls
    /\ sent[3].role = "tool"
    /\ sent[4] = ToolMessage(<<"Domain: example.org", "\n", "Registrar: none">>)
    /\ lastCall.name = "whois"
    /\ lastCall.arguments = TargetDict

(***************************************************************************)
(* C17: every step leaves the previous conversation as a prefix of the     *)
(* new one, and every model call is passed the whole conversation.         *)
(***************************************************************************)
AppendOnly ==
    [][/\ Len(messages') >= Len(messages)
       /\ SubSeq(messages', 1, Len(messages)) = messages
       /\ totalModelCalls' # totalModelCalls => sent' = messages]_vars

\* a second turn is under way after a first turn that ended at the cap
SecondTurnAfterCap ==
    /\ turns = 2
    /\ Len(messages) >= 2 * IterationCap + 3
    /\ messages[1].role = "user"
    /\ messages[2 * IterationCap + 2].role = "user"
    /\ sent = SubSeq(messages, 1, 2 * IterationCap + 2)

(***************************************************************************)
(* C18: after a turn that ended with a reply that has neither text nor     *)
(* tool-call requests, no exception is pending, no tool call was made for  *)
(* it and every message of the conversation has one of the roles user,     *)
(* assistant, tool.                                                        *)
(***************************************************************************)
EmptyReplyTolerated ==
    (/\ pc = "prompt"
     /\ turnEnd = "done"
     /\ ~HasContent(assistant_msg)
     /\ ~HasToolCalls(assistant_msg))
    => /\ exc = NoExc
       /\ lastCall.at < Len(messages)
       /\ \A k \in 1..Len(messages) :
             /\ "role" \in messages[k].keys
             /\ messages[k].role \in {"user", "assistant", "tool"}

(***************************************************************************)
(* C19: create_session succeeds at most once and at most one session is    *)
(* open; list_tools and call_tool are passed the id of that session; and   *)
(* once close_session has been called main is over, so that no model call  *)
(* or tool call follows it.                                                *)
(***************************************************************************)
SessionExclusive ==
    /\ createCalls <= 1
    /\ createCalls - closeCalls \in {0, 1}
    /\ session_id # NoSession => (session_id = SessionId /\ createCalls = 1)
    /\ listedWith # NoSession => listedWith = session_id
    /\ toolCalls > 0 => (lastCall.session = session_id /\ session_id # NoSession)
    /\ (totalModelCalls > 0 \/ toolCalls > 0) => createCalls = 1
    /\ pc \in {"list_tools", "check_ollama", "prompt", "model", "tools"} =>
          (createCalls = 1 /\ closeCalls = 0)
    /\ closeCalls > 0 => pc = "exited"

\* a run that made tool calls and has closed its session
ClosedAfterToolCalls ==
    /\ pc = "exited"
    /\ closeCalls = 1
    /\ toolCalls >= 2
    /\ lastCall.session = SessionId
    /\ listedWith = SessionId

(***************************************************************************)
(* C20: in orchestrator.main a failure while parsing or executing a        *)
(* TOOL_CALL never leaves main: at most one tool call is attempted per     *)
(* turn, every turn that is over has exactly one log entry, the entry of   *)
(* a failed turn has no tool_result, the loop is back at the prompt, and   *)
(* a normal end of main follows the input exit or quit.                    *)
(***************************************************************************)
ToolCallFailureContained ==
    /\ o_attempts <= 1
    /\ o_pc \in {"llm", "detect"} => Len(o_log) = o_turns - 1
    /\ o_pc = "prompt" => Len(o_log) = o_turns
    /\ o_last \in {"tool_failed", "tool_raised"} =>
          /\ o_pc \in {"prompt", "exited"}
          /\ Len(o_log) = o_turns
          /\ o_log[Len(o_log)] = LogData(o_input, o_content, FALSE) \/ o_pc = "exited"
          /\ ~o_log[Len(o_log)].hasToolResult
          /\ o_exc \in {NoExc, "LlmError"}
          /\ o_last = "tool_failed" => o_attempts = 0
    /\ o_exc \notin {"IndexError", "JSONDecodeError", "TypeError", "KeyError", "ToolError"}
    /\ (o_pc = "exited" /\ o_exc = NoExc) => o_input \in {"exit", "QUIT"}

\* the second turn's tool call raised and the loop is back at the prompt
SecondToolCallRaised ==
    /\ o_pc = "prompt"
    /\ o_turns = 2
    /\ o_last = "tool_raised"
    /\ o_attempts = 1
    /\ Len(o_log) = 2
    /\ o_log[1].llm.marker = "TOOL_CALL"

=============================================================================
